---- MODULE Spec2Model ----
(***************************************************************************)
(* A model of package version (nathangreene3/version): the Version value   *)
(* type, its grammar (versionPattern), New, Parse, IsValid, Bump, Compare  *)
(* and String.  Strings are sequences of one-character strings; bytes are  *)
(* ordered as in ASCII.  uint is UintBits wide.                            *)
(***************************************************************************)
EXTENDS Integers, Sequences, FiniteSets, TLC

VARIABLES op, in, out

vars == <<op, in, out>>

(***************************************************************************)
(* Bounds of the model.                                                    *)
(***************************************************************************)
\* width of uint and of strconv.IntSize in the model (the platform's is 32 or 64)
UintBits == 4
\* the longest option list passed to New and Bump
MaxOpts == 2
\* the longest pre-release tail of a string handed to IsValid and Parse
MaxTail == 2

MaxUint == 2 ^ UintBits - 1

(***************************************************************************)
(* Bytes and strings.                                                      *)
(***************************************************************************)
Digits == <<"0", "1", "2", "3", "4", "5", "6", "7", "8", "9">>
Uppers == <<"A", "B", "C", "D", "E", "F", "G", "H", "I", "J", "K", "L", "M",
            "N", "O", "P", "Q", "R", "S", "T", "U", "V", "W", "X", "Y", "Z">>
Lowers == <<"a", "b", "c", "d", "e", "f", "g", "h", "i", "j", "k", "l", "m",
            "n", "o", "p", "q", "r", "s", "t", "u", "v", "w", "x", "y", "z">>
\* the bytes of the model in ascending byte order
Bytes == <<"\n", "-", ".">> \o Digits \o Uppers \o <<"_">> \o Lowers

Range(f) == {f[i] : i \in DOMAIN f}

\* the rank of a byte: order-isomorphic to its byte value
Ord(c) == CHOOSE i \in DOMAIN Bytes : Bytes[i] = c

\* Go's < on strings: bytewise lexicographic, a proper prefix is smaller
RECURSIVE StrLess(_, _)
StrLess(a, b) ==
    IF b = <<>> THEN FALSE
    ELSE IF a = <<>> THEN TRUE
    ELSE IF Head(a) # Head(b) THEN Ord(Head(a)) < Ord(Head(b))
    ELSE StrLess(Tail(a), Tail(b))

\* strings.Index(s, sep) for a one-byte sep, 0-based, -1 when absent
Index(s, c) ==
    IF \E i \in DOMAIN s : s[i] = c
    THEN (CHOOSE i \in DOMAIN s : s[i] = c /\ \A j \in 1..(i - 1) : s[j] # c) - 1
    ELSE -1

\* the Go slice s[lo:hi], 0-based and half-open
Slice(s, lo, hi) == SubSeq(s, lo + 1, hi)

\* strings.Split(s, sep) for a one-byte sep
RECURSIVE Split(_, _)
Split(s, c) ==
    LET i == Index(s, c)
    IN  IF i < 0 THEN <<s>>
        ELSE <<Slice(s, 0, i)>> \o Split(Slice(s, i + 1, Len(s)), c)

\* fmt's %d of an unsigned integer
RECURSIVE Dec(_)
Dec(n) == IF n < 10 THEN <<Digits[n + 1]>> ELSE Dec(n \div 10) \o <<Digits[(n % 10) + 1]>>

(***************************************************************************)
(* Regular expressions (package regexp, the constructs versionPattern      *)
(* uses).  Ends(r, s, P) is the set of positions where a match of r that   *)
(* starts at a position of P can end.                                      *)
(***************************************************************************)
Lit(c) == [t |-> "lit", c |-> c]
AnyChar == [t |-> "any"]
Class(S) == [t |-> "class", set |-> S]
Cat(xs) == [t |-> "cat", xs |-> xs]
Alt(xs) == [t |-> "alt", xs |-> xs]
Star(x) == [t |-> "star", x |-> x]
Plus(x) == [t |-> "plus", x |-> x]
Opt(x) == [t |-> "opt", x |-> x]
Rep(x, n) == [t |-> "rep", x |-> x, n |-> n]
Bol == [t |-> "bol"]
Eol == [t |-> "eol"]

RECURSIVE Ends(_, _, _)
RECURSIVE CatEnds(_, _, _, _)
RECURSIVE StarEnds(_, _, _, _)
RECURSIVE RepEnds(_, _, _, _)

CatEnds(xs, k, s, P) ==
    IF k > Len(xs) \/ P = {} THEN P ELSE CatEnds(xs, k + 1, s, Ends(xs[k], s, P))

StarEnds(x, s, frontier, acc) ==
    LET new == Ends(x, s, frontier) \ acc
    IN  IF new = {} THEN acc ELSE StarEnds(x, s, new, acc \cup new)

RepEnds(x, n, s, P) ==
    IF n = 0 \/ P = {} THEN P ELSE RepEnds(x, n - 1, s, Ends(x, s, P))

Ends(r, s, P) ==
    CASE r.t = "lit"   -> {p + 1 : p \in {q \in P : q <= Len(s) /\ s[q] = r.c}}
      [] r.t = "any"   -> {p + 1 : p \in {q \in P : q <= Len(s) /\ s[q] # "\n"}}
      [] r.t = "class" -> {p + 1 : p \in {q \in P : q <= Len(s) /\ s[q] \in r.set}}
      [] r.t = "cat"   -> CatEnds(r.xs, 1, s, P)
      [] r.t = "alt"   -> UNION {Ends(r.xs[k], s, P) : k \in DOMAIN r.xs}
      [] r.t = "star"  -> StarEnds(r.x, s, P, P)
      [] r.t = "plus"  -> LET Q == Ends(r.x, s, P) IN StarEnds(r.x, s, Q, Q)
      [] r.t = "opt"   -> P \cup Ends(r.x, s, P)
      [] r.t = "rep"   -> RepEnds(r.x, r.n, s, P)
      [] r.t = "bol"   -> {p \in P : p = 1}
      [] r.t = "eol"   -> {p \in P : p = Len(s) + 1}

\* regexp.MatchString: whether s contains a match of r
MatchString(r, s) == Ends(r, s, 1..(Len(s) + 1)) # {}

AlNum == Class(Range(Lowers) \cup Range(Uppers) \cup Range(Digits))
NumField == Alt(<<Lit("0"), Cat(<<Class(Range(Digits) \ {"0"}), Star(Class(Range(Digits)))>>)>>)

\* "^v(0|[1-9][0-9]*)(.(0|[1-9][0-9]*)){2}(-([a-zA-Z0-9]+)(.[a-zA-Z0-9]+)*)?$"
versionPattern ==
    Cat(<<Bol, Lit("v"), NumField, Rep(Cat(<<AnyChar, NumField>>), 2),
          Opt(Cat(<<Lit("-"), Plus(AlNum), Star(Cat(<<AnyChar, Plus(AlNum)>>))>>)),
          Eol>>)

IsValid(version) == MatchString(versionPattern, version)

(***************************************************************************)
(* Errors: an error is the chain of its messages, outermost first; the nil *)
(* error is the empty chain.                                               *)
(***************************************************************************)
Nil == <<>>
ErrInvalidField == <<"invalid field">>
ErrInvalidVersion == <<"invalid version">>
ErrSyntax == <<"invalid syntax">>
ErrRange == <<"value out of range">>

\* fmt.Errorf(prefix + ": %w", err)
Errorf(prefix, err) == <<prefix>> \o err

\* errors.Is(err, target) for a sentinel target
Is(err, target) == \E k \in DOMAIN err : SubSeq(err, k, Len(err)) = target

\* what a call produces: the pair it returns, or a run-time panic in place
\* of a return
Return(v, err) == [v |-> v, err |-> err, fault |-> FALSE, ok |-> TRUE]

(***************************************************************************)
(* Field and Option.                                                       *)
(***************************************************************************)
Patch == 1
Minor == 2
Major == 3

\* the option PreRelease(s) returns
PreRelease(s) == [option |-> "PreRelease", s |-> s]

\* opts[i](&v)
Apply(o, v) == [v EXCEPT !.preRelease = o.s]

(***************************************************************************)
(* Version.                                                                *)
(***************************************************************************)
Version(major, minor, patch, preRelease) ==
    [major |-> major, minor |-> minor, patch |-> patch, preRelease |-> preRelease]

\* Version{}
ZeroVersion == Version(0, 0, 0, <<>>)

\* index out of range [k] with length n
Fault == [v |-> ZeroVersion, err |-> Nil, fault |-> TRUE, ok |-> FALSE]

String(v) ==
    IF v.preRelease = <<>>
    THEN <<"v">> \o Dec(v.major) \o <<".">> \o Dec(v.minor) \o <<".">> \o Dec(v.patch)
    ELSE <<"v">> \o Dec(v.major) \o <<".">> \o Dec(v.minor) \o <<".">> \o Dec(v.patch)
             \o <<"-">> \o v.preRelease

\* a slip: only the first option is applied
ApplyFirst(opts, i, v) == IF opts = <<>> THEN v ELSE Apply(opts[1], v)

\* for i := 0; i < len(opts); i++ { opts[i](&v) }
RECURSIVE ApplyAll(_, _, _)
ApplyAll(opts, i, v) ==
    IF i > Len(opts) THEN v ELSE ApplyAll(opts, i + 1, Apply(opts[i], v))

\* a slip: the candidate is returned without validation
NewUnchecked(major, minor, patch, opts) ==
    Return(ApplyAll(opts, 1, Version(major, minor, patch, <<>>)), Nil)

New(major, minor, patch, opts) ==
    LET v == ApplyAll(opts, 1, Version(major, minor, patch, <<>>))
    IN  IF ~IsValid(String(v))
        THEN Return(ZeroVersion, ErrInvalidVersion)
        ELSE Return(v, Nil)

\* strconv.ParseUint(s, 10, bitSize): the digits are read left to right; a
\* byte that is no digit is a syntax error, a value above 2^bitSize - 1 a
\* range error, whichever the scan meets first
RECURSIVE ParseUintFrom(_, _, _, _)
ParseUintFrom(s, i, n, maxVal) ==
    IF i > Len(s) THEN [n |-> n, err |-> Nil]
    ELSE IF s[i] \notin Range(Digits)
         THEN [n |-> 0, err |-> Errorf("strconv.ParseUint: parsing", ErrSyntax)]
    ELSE IF n * 10 + (Ord(s[i]) - Ord("0")) > maxVal
         THEN [n |-> maxVal, err |-> Errorf("strconv.ParseUint: parsing", ErrRange)]
    ELSE ParseUintFrom(s, i + 1, n * 10 + (Ord(s[i]) - Ord("0")), maxVal)

ParseUint(s, bitSize) ==
    IF s = <<>>
    THEN [n |-> 0, err |-> Errorf("strconv.ParseUint: parsing", ErrSyntax)]
    ELSE ParseUintFrom(s, 1, 0, 2 ^ bitSize - 1)

\* a slip: strings.LastIndex in place of strings.Index
DashIndexLast(s) ==
    IF \E i \in DOMAIN s : s[i] = "-"
    THEN (CHOOSE i \in DOMAIN s : s[i] = "-" /\ \A j \in (i + 1)..Len(s) : s[j] # "-") - 1
    ELSE -1

\* strings.Index(s, "-")
DashIndex(s) == Index(s, "-")

Parse(s) ==
    IF ~IsValid(s) THEN Return(ZeroVersion, ErrInvalidVersion)
    ELSE
    LET i == DashIndex(s)
        fields == IF i < 0 THEN Slice(s, 1, Len(s)) ELSE Slice(s, 1, i)
        preRelease == IF i < 0 THEN <<>> ELSE Slice(s, i + 1, Len(s))
        ss == Split(fields, ".")
        major == ParseUint(ss[1], UintBits)
        minor == ParseUint(ss[2], UintBits)
        patch == ParseUint(ss[3], UintBits)
        r == New(major.n, minor.n, patch.n, <<PreRelease(preRelease)>>)
    IN  IF major.err # Nil THEN Return(ZeroVersion, Errorf("strconv.ParseUint", major.err))
        ELSE IF Len(ss) < 2 THEN Fault
        ELSE IF minor.err # Nil THEN Return(ZeroVersion, Errorf("strconv.ParseUint", minor.err))
        ELSE IF Len(ss) < 3 THEN Fault
        ELSE IF patch.err # Nil THEN Return(ZeroVersion, Errorf("strconv.ParseUint", patch.err))
        ELSE IF r.err # Nil THEN Return(ZeroVersion, Errorf("New", r.err))
        ELSE Return(r.v, Nil)

\* x + 1 in uint arithmetic
Inc(x) == (x + 1) % (2 ^ UintBits)

\* a slip: bumping the minor version keeps the patch version
BumpKeepsPatch(v, f, opts) ==
    LET r == CASE f = Major -> New(Inc(v.major), 0, 0, opts)
               [] f = Minor -> New(v.major, Inc(v.minor), v.patch, opts)
               [] f = Patch -> New(v.major, v.minor, Inc(v.patch), opts)
               [] OTHER -> Return(ZeroVersion, ErrInvalidField)
    IN  IF f \in {Major, Minor, Patch} /\ r.err # Nil
        THEN Return(ZeroVersion, Errorf("New", r.err))
        ELSE r

\* a slip: a Field that is none of the three bumps the patch version
BumpDefaultPatch(v, f, opts) ==
    LET r == CASE f = Major -> New(Inc(v.major), 0, 0, opts)
               [] f = Minor -> New(v.major, Inc(v.minor), 0, opts)
               [] OTHER -> New(v.major, v.minor, Inc(v.patch), opts)
    IN  IF r.err # Nil THEN Return(ZeroVersion, Errorf("New", r.err)) ELSE r

Bump(v, f, opts) ==
    LET r == CASE f = Major -> New(Inc(v.major), 0, 0, opts)
               [] f = Minor -> New(v.major, Inc(v.minor), 0, opts)
               [] f = Patch -> New(v.major, v.minor, Inc(v.patch), opts)
               [] OTHER -> Return(ZeroVersion, ErrInvalidField)
    IN  IF f \in {Major, Minor, Patch} /\ r.err # Nil
        THEN Return(ZeroVersion, Errorf("New", r.err))
        ELSE r

\* a slip: the pre-releases are compared in the wrong direction
CompareSwapped(v, v1) ==
    CASE v.major < v1.major -> -1
      [] v1.major < v.major -> 1
      [] v.minor < v1.minor -> -1
      [] v1.minor < v.minor -> 1
      [] v.patch < v1.patch -> -1
      [] v1.patch < v.patch -> 1
      [] StrLess(v.preRelease, v1.preRelease) -> 1
      [] StrLess(v1.preRelease, v.preRelease) -> -1
      [] OTHER -> 0

Compare(v, v1) ==
    CASE v.major < v1.major -> -1
      [] v1.major < v.major -> 1
      [] v.minor < v1.minor -> -1
      [] v1.minor < v.minor -> 1
      [] v.patch < v1.patch -> -1
      [] v1.patch < v.patch -> 1
      [] StrLess(v.preRelease, v1.preRelease) -> -1
      [] StrLess(v1.preRelease, v.preRelease) -> 1
      [] OTHER -> 0

\* the method (v Version).IsValid; a panic of Parse passes through it
VersionIsValid(v) ==
    LET r == Parse(String(v))
    IN  [ok |-> ~r.fault /\ r.err = Nil /\ Compare(v, r.v) = 0, fault |-> r.fault]

(***************************************************************************)
(* Inputs of the calls.                                                    *)
(***************************************************************************)
\* the numbers handed to New: zero, the last one-digit number, the largest uint
NumInputs == {0, 9, MaxUint}

\* the strings handed to PreRelease: none, one with a dot and a hyphen
\* inside, and one with an empty first segment
PreInputs == {<<>>, <<"a", ".", "1", "-", "b">>, <<".", "a">>}

RECURSIVE SeqsUpTo(_, _)
SeqsUpTo(S, n) ==
    IF n = 0 THEN {<<>>}
    ELSE LET shorter == SeqsUpTo(S, n - 1)
         IN  shorter \cup {Append(q, x) : q \in shorter, x \in S}

OptInputs == SeqsUpTo({PreRelease(p) : p \in PreInputs}, MaxOpts)

\* the Field values handed to Bump: the three constants, the zero value, a
\* negative one and one above Major
FieldInputs == {-1, 0, Patch, Minor, Major, Major + 1}

\* the strings handed to IsValid and Parse: an optional "v", three numeric
\* tokens joined by two separator bytes, and an optional tail after a "-"
NumTokens == {<<"0">>, <<"0", "1">>, Dec(MaxUint), Dec(MaxUint + 1)}
SepBytes == {".", "-", "_"}
TailBytes == {"a", ".", "-", "_"}
TailInputs == {<<>>} \cup {<<"-">> \o p : p \in SeqsUpTo(TailBytes, MaxTail) \ {<<>>}}
StringInputs ==
    {lead \o n1 \o <<c1>> \o n2 \o <<c2>> \o n3 \o tail :
        lead \in {<<>>, <<"v">>}, n1 \in NumTokens, c1 \in SepBytes,
        n2 \in NumTokens, c2 \in SepBytes, n3 \in NumTokens, tail \in TailInputs}

\* the test's second case, "v1.2.3-Abc.1.2.3", and the empty string
SampleInputs ==
    {<<"v", "1", ".", "2", ".", "3", "-", "A", "b", "c", ".", "1", ".", "2", ".", "3">>,
     <<>>}

(***************************************************************************)
(* The caller.  It starts with a call of New, Parse, IsValid or Compare    *)
(* and goes on with calls on the Version the call before returned: Bump on *)
(* what New or Parse returned, then Parse of its String() and its          *)
(* IsValid().  op is the last call, in its arguments, out what it          *)
(* produced.                                                               *)
(***************************************************************************)
NoIn ==
    [recv |-> ZeroVersion, via |-> "init", viaErr |-> Nil, f |-> 0,
     major |-> 0, minor |-> 0, patch |-> 0, opts |-> <<>>, s |-> <<>>,
     a |-> ZeroVersion, b |-> ZeroVersion, c |-> ZeroVersion]

\* the Version in the caller's hands, and the call that returned it
Held == [NoIn EXCEPT !.recv = out.v, !.via = op, !.viaErr = out.err]

Init ==
    /\ op = "init"
    /\ in = NoIn
    /\ out = Return(ZeroVersion, Nil)

DoNew(major, minor, patch, opts) ==
    /\ op' = "New"
    /\ in' = [NoIn EXCEPT !.major = major, !.minor = minor, !.patch = patch, !.opts = opts]
    /\ out' = New(major, minor, patch, opts)

DoParse(s) ==
    /\ op' = "Parse"
    /\ in' = [NoIn EXCEPT !.via = "text", !.s = s]
    /\ out' = Parse(s)

DoIsValid(s) ==
    /\ op' = "IsValid"
    /\ in' = [NoIn EXCEPT !.via = "text", !.s = s]
    /\ out' = [Return(ZeroVersion, Nil) EXCEPT !.ok = IsValid(s)]

\* Parse(v.String()) of the Version in hand
DoParseString ==
    /\ op' = "Parse"
    /\ in' = [Held EXCEPT !.s = String(out.v)]
    /\ out' = Parse(String(out.v))

\* v.IsValid() of the Version in hand
DoVersionIsValid ==
    /\ op' = "Version.IsValid"
    /\ in' = Held
    /\ out' = [Return(out.v, Nil) EXCEPT !.ok = VersionIsValid(out.v).ok,
                                         !.fault = VersionIsValid(out.v).fault]

DoBump(f, opts) ==
    /\ op' = "Bump"
    /\ in' = [Held EXCEPT !.f = f, !.opts = opts]
    /\ out' = Bump(out.v, f, opts)

\* the caller has made no call yet
Start == op = "init"

\* the caller holds a Version New or Parse of a text returned
Constructed == (op = "New" \/ (op = "Parse" /\ in.via = "text")) /\ ~out.fault

\* the caller holds a Version New, Parse of a text or Bump returned
Holding == Constructed \/ op = "Bump"

Next ==
    \/ Start /\ \E major, minor, patch \in NumInputs : \E opts \in OptInputs :
           DoNew(major, minor, patch, opts)
    \/ Start /\ \E s \in SampleInputs : DoParse(s)
    \/ Holding /\ DoParseString
    \/ Holding /\ DoVersionIsValid
    \/ Constructed /\ \E f \in FieldInputs : \E opts \in OptInputs : DoBump(f, opts)

Spec == Init /\ [][Next]_vars

\* IsValid and Parse on every input string
NextStrings ==
    \/ Start /\ \E s \in StringInputs \cup SampleInputs : DoParse(s)
    \/ Start /\ \E s \in StringInputs \cup SampleInputs : DoIsValid(s)

SpecStrings == Init /\ [][NextStrings]_vars

\* Compare on every three input Versions
CompareNums == {9, MaxUint}
ComparePres == {<<>>, <<"a", ".", "1">>, <<"a", ".", "2">>, <<"Z">>}
CompareInputs ==
    {Version(major, minor, patch, p) :
        major \in CompareNums, minor \in CompareNums, patch \in CompareNums,
        p \in ComparePres}

DoCompare(a, b, c) ==
    /\ op' = "Compare"
    /\ in' = [NoIn EXCEPT !.a = a, !.b = b, !.c = c]
    /\ out' = [ab |-> Compare(a, b), ba |-> Compare(b, a), bc |-> Compare(b, c),
               cb |-> Compare(c, b), ac |-> Compare(a, c), aa |-> Compare(a, a)]

NextCompare == Start /\ \E a, b, c \in CompareInputs : DoCompare(a, b, c)

SpecCompare == Init /\ [][NextCompare]_vars

(***************************************************************************)
(* The claims.                                                             *)
(***************************************************************************)
\* the pre-release the option list leaves in the candidate: the last
\* option's, or none
LastPre(opts) == IF opts = <<>> THEN <<>> ELSE opts[Len(opts)].s

\* C1: for a Version v that New returned with a nil error, Parse(v.String())
\* returns a nil error and a Version that compares equal to v and has v's
\* major, minor, patch and pre-release.
C1_RoundTrip ==
    (op = "Parse" /\ in.via = "New" /\ in.viaErr = Nil) =>
        /\ ~out.fault
        /\ out.err = Nil
        /\ Compare(in.recv, out.v) = 0
        /\ out.v.major = in.recv.major
        /\ out.v.minor = in.recv.minor
        /\ out.v.patch = in.recv.patch
        /\ out.v.preRelease = in.recv.preRelease

\* C1's case: the round trip of a Version with a two-digit field and a
\* pre-release that holds a hyphen
C1_Witness ==
    /\ op = "Parse" /\ in.via = "New" /\ in.viaErr = Nil
    /\ in.recv.major = MaxUint
    /\ \E i \in DOMAIN in.recv.preRelease : in.recv.preRelease[i] = "-"
    /\ out.err = Nil /\ out.v = in.recv

\* the grammar as section 4.1 words it: the separators are literal dots
GrammarOfSpec ==
    Cat(<<Bol, Lit("v"), NumField, Rep(Cat(<<Lit("."), NumField>>), 2),
          Opt(Cat(<<Lit("-"), Plus(AlNum), Star(Cat(<<Lit("."), Plus(AlNum)>>))>>)),
          Eol>>)

\* C2: IsValid(s) is true exactly when the whole of s is "v", three numeric
\* fields separated by literal dots, and optionally "-" and dot-separated
\* alphanumeric segments.
C2_IsValidIsGrammar ==
    op = "IsValid" => (out.ok <=> MatchString(GrammarOfSpec, in.s))

\* C3: Parse(s) returns a pair for every string s; it never faults.
C3_ParseNeverFaults == op = "Parse" => ~out.fault

\* C4: for a string IsValid accepts, Parse returns a numeric-conversion error
\* only for a field above the largest uint, and the error is not
\* ErrInvalidVersion; for a string IsValid rejects it returns exactly
\* ErrInvalidVersion.
C4_OnlyRangeErrors ==
    (op = "Parse" /\ ~out.fault) =>
        IF IsValid(in.s)
        THEN out.err # Nil => (Is(out.err, ErrRange) /\ ~Is(out.err, ErrInvalidVersion))
        ELSE out = Return(ZeroVersion, ErrInvalidVersion)

\* the numbers of a are before those of b, or equal to them
NumsLess(a, b) ==
    \/ a.major < b.major
    \/ a.major = b.major /\ a.minor < b.minor
    \/ a.major = b.major /\ a.minor = b.minor /\ a.patch < b.patch
NumsEqual(a, b) == a.major = b.major /\ a.minor = b.minor /\ a.patch = b.patch

\* C5: Compare is the sign of the lexicographic comparison of (major, minor,
\* patch, preRelease), the pre-release by byte order (the empty one first,
\* "a.1" before "a.2"); it is antisymmetric and transitive, and zero exactly
\* for identical fields.
C5_CompareIsTotalOrder ==
    op = "Compare" =>
        /\ out.ab \in {-1, 0, 1}
        /\ out.ab = -1 <=> (NumsLess(in.a, in.b) \/
                              (NumsEqual(in.a, in.b) /\ StrLess(in.a.preRelease, in.b.preRelease)))
        /\ (NumsEqual(in.a, in.b) /\ in.a.preRelease = <<>> /\ in.b.preRelease # <<>>)
               => out.ab = -1
        /\ (NumsEqual(in.a, in.b) /\ in.a.preRelease = <<"a", ".", "1">>
               /\ in.b.preRelease = <<"a", ".", "2">>) => out.ab = -1
        /\ out.ab = -out.ba
        /\ (out.ab <= 0 /\ out.bc <= 0) => out.ac <= 0
        /\ out.ab = 0 <=> in.a = in.b
        /\ out.aa = 0

\* C5's case: three Versions with the same numbers, in the order of their
\* pre-releases
C5_Witness ==
    /\ op = "Compare"
    /\ NumsEqual(in.a, in.b) /\ NumsEqual(in.b, in.c)
    /\ in.a.preRelease = <<>> /\ in.b.preRelease = <<"a", ".", "1">>
    /\ in.c.preRelease = <<"a", ".", "2">>
    /\ out.ab = -1 /\ out.bc = -1 /\ out.ac = -1 /\ out.ba = 1

\* what Bump hands to New for each of the three fields
BumpedFields(v, f) ==
    CASE f = Major -> <<Inc(v.major), 0, 0>>
      [] f = Minor -> <<v.major, Inc(v.minor), 0>>
      [] f = Patch -> <<v.major, v.minor, Inc(v.patch)>>

C7_BumpInvalidField ==
    (op = "Bump" /\ in.f \notin {Patch, Minor, Major}) =>
        out = Return(ZeroVersion, ErrInvalidField)

\* C7's case: Bump of the zero Field, with an option New would reject, on a
\* Version that is not the zero Version
C7_Witness ==
    /\ op = "Bump" /\ in.f = 0
    /\ in.recv # ZeroVersion
    /\ in.opts # <<>> /\ ~IsValid(String(Version(0, 0, 0, LastPre(in.opts))))
    /\ out.err = ErrInvalidField

\* C8: New validates the candidate the last PreRelease option leaves: it
\* returns the zero Version and ErrInvalidVersion when its String() fails
\* IsValid, and otherwise the given fields with the last pre-release and a
\* nil error; it succeeds whenever that pre-release is empty.
C8_NewLastOptionWins ==
    op = "New" =>
        LET cand == Version(in.major, in.minor, in.patch, LastPre(in.opts))
        IN  /\ ~out.fault
            /\ IF IsValid(String(cand))
               THEN out.err = Nil /\ out.v = cand
               ELSE out.err = ErrInvalidVersion /\ out.v = ZeroVersion
            /\ LastPre(in.opts) = <<>> => out.err = Nil

\* C8's case: New succeeds with a rejected pre-release followed by an
\* accepted one
C8_Witness ==
    /\ op = "New" /\ Len(in.opts) = 2
    /\ in.opts[1].s = <<".", "a">> /\ in.opts[2].s # <<>>
    /\ out.err = Nil /\ out.v.preRelease = in.opts[2].s
    /\ out.v.major = MaxUint

\* C9: every Version New, Parse or Bump returns, with a nil error or as the
\* zero Version beside an error, is valid: its String() passes IsValid,
\* Parse of it succeeds with an equal Version, and its IsValid() is true.
C9_ReturnedVersionsAreValid ==
    /\ Holding => IsValid(String(out.v))
    /\ (Holding /\ out.err # Nil) => out.v = ZeroVersion
    /\ (op = "Parse" /\ in.via \in {"New", "Parse", "Bump"}) =>
           (~out.fault /\ out.err = Nil /\ Compare(in.recv, out.v) = 0)
    /\ op = "Version.IsValid" => (out.ok /\ ~out.fault)

\* C9's case: IsValid() of a Version with a pre-release that a Bump returned
C9_Witness ==
    /\ op = "Version.IsValid" /\ in.via = "Bump" /\ in.viaErr = Nil
    /\ in.recv.preRelease # <<>>
    /\ out.ok

\* C10: Bump of Patch, Minor or Major without options, of a Version New or
\* Parse returned, succeeds with a Version the receiver compares below,
\* also when the bumped field is the largest uint.
C10_BumpIncreases ==
    (op = "Bump" /\ in.f \in {Patch, Minor, Major} /\ in.opts = <<>> /\ in.viaErr = Nil) =>
        (out.err = Nil /\ Compare(in.recv, out.v) = -1)

====
